---- MODULE Spec2Model ----
(***************************************************************************)
(* A model of astromodels/functions/functions.py: the optional-dependency  *)
(* probes run at module load, the catalog of function classes, the unit    *)
(* assignment (_set_units) of every class, the synchrotron particle        *)
(* distribution, and the evaluate methods of band, broken_powerlaw,        *)
(* uniform_prior and log_uniform_prior.                                    *)
(*                                                                         *)
(* Numbers are exact: rationals n/d, and products of powers kept as prime   *)
(* exponent vectors.  Floating point rounding is not modelled.              *)
(***************************************************************************)
EXTENDS Integers, Sequences, FiniteSets, TLC

VARIABLES
    pc,          \* position of the module's top-level code
    imp,         \* environment: outcome of importing naima and pygsl
    has_naima,   \* module global has_naima: "unset", "True" or "False"
    has_gsl,     \* module global has_gsl: "unset", "True" or "False"
    warned,      \* warning categories emitted by warnings.warn
    classes,     \* names of the classes defined in the module so far
    sys,         \* the unit system get_units() returns
    self,        \* the function instance under test: [cls, unit], or None
    last,        \* the most recent _set_units call on self, or None
    lastOk,      \* (x_unit, y_unit) of the most recent call that returned
    snap,        \* parameter units right after that call
    syn,         \* a synchrotron instance: its attributes, or None
    dist,        \* the function instances that can be assigned to it
    assigned,    \* the most recent particle_distribution assignment, or None
    out,         \* result of the last adapter call or property read, or None
    call,        \* arguments of an evaluate call, or None
    ret          \* what the evaluate call returned or raised, or None

vars == <<pc, imp, has_naima, has_gsl, warned, classes, sys, self, last,
          lastOk, snap, syn, dist, assigned, out, call, ret>>

loadVars == <<pc, imp, has_naima, has_gsl, warned, classes>>
unitVars == <<self, last, lastOk, snap>>
synVars  == <<syn, dist, assigned, out>>
evalVars == <<call, ret>>

\* Python's None, and an attribute that is not set
None == [none |-> TRUE]

\* no exception: the call returned
NoExc == "returned"

(***************************************************************************)
(* Bounds of the model.                                                    *)
(***************************************************************************)
\* unit scales: a unit of scale k is 1000^k times the base unit
MaxScale == 1
\* function instances that can be assigned as particle distribution
MaxDist == 2
\* values handed to the particle distribution adapter
MaxArg == 2
\* evaluate: the coordinate x runs up to MaxX
MaxX == 3
\* evaluate: indices (alpha, beta, index) run from -MaxIndex
MaxIndex == 3
\* band.evaluate: the peak position xp runs up to MaxXp
MaxXp == 2
\* band.evaluate: the band limits a and b run up to MaxBand
MaxBand == 3
\* evaluate: normalisations (F, K, value) run up to MaxNorm
MaxNorm == 1
\* priors: the bounds run up to MaxBound; broken_powerlaw: the break xb
MaxBound == 2

(***************************************************************************)
(* astropy units: a scale and the exponents of the base dimensions          *)
(* (energy, time, length, angle, magnetic flux density).                    *)
(***************************************************************************)
Unit(k, e, t, l, a, b) == [k |-> k, E |-> e, T |-> t, L |-> l, A |-> a, B |-> b]

dimensionless_unscaled == Unit(0, 0, 0, 0, 0, 0)
rad    == Unit(0, 0, 0, 0, 1, 0)
Gauss  == Unit(0, 0, 0, 0, 0, 1)
kpc    == Unit(7, 0, 0, 1, 0, 0)
keV    == Unit(0, 1, 0, 0, 0, 0)
GeV    == Unit(2, 1, 0, 0, 0, 0)
second == Unit(0, 0, 1, 0, 0, 0)
cm2    == Unit(0, 0, 0, 2, 0, 0)

\* an energy unit 1000^k keV
Energy(k) == Unit(k, 1, 0, 0, 0, 0)

\* a differential photon flux 1 / (1000^k keV  s  cm2)
DiffFlux(k) == Unit(0 - k, -1, -1, -2, 0, 0)

\* Unit.__mul__
UMul(u, v) == [k |-> u.k + v.k, E |-> u.E + v.E, T |-> u.T + v.T,
               L |-> u.L + v.L, A |-> u.A + v.A, B |-> u.B + v.B]

\* Unit.__pow__
UPow(u, n) == [k |-> u.k * n, E |-> u.E * n, T |-> u.T * n,
               L |-> u.L * n, A |-> u.A * n, B |-> u.B * n]

\* Unit.__div__
UDiv(u, v) == UMul(u, UPow(v, -1))

\* unit.physical_type == 'energy'
IsEnergy(u) == u.E = 1 /\ u.T = 0 /\ u.L = 0 /\ u.A = 0 /\ u.B = 0

\* unit.decompose().physical_type == 'dimensionless'
IsDimensionless(u) == u.E = 0 /\ u.T = 0 /\ u.L = 0 /\ u.A = 0 /\ u.B = 0

\* a parameter declared without a unit
NoUnit == [nounit |-> TRUE]

\* the units handed to _set_units as x_unit and as y_unit
XUnits == {Energy(k) : k \in 0..MaxScale} \cup {second}
YUnits == {DiffFlux(k) : k \in 0..MaxScale} \cup {second, keV}

\* the unit systems get_units() can be configured to
UnitSystems ==
    {[photon_energy |-> Energy(p), time |-> second, area |-> cm2,
      particle_energy |-> Energy(q)] : p, q \in 0..MaxScale}

\* get_units()
get_units == sys

(***************************************************************************)
(* Module load: the optional dependency probes and the class statements.    *)
(***************************************************************************)
ImportOutcomes == {"ok", "ImportError", "OtherError"}

\* try: import naima ... except ImportError: warn, has_naima = False
\* else: has_naima = True
ImportNaima ==
    /\ pc = "import_naima"
    /\ IF imp.naima = "ok"
         THEN /\ has_naima' = "True"
              /\ warned' = warned
              /\ pc' = "import_gsl"
         ELSE IF imp.naima = "ImportError"
         THEN /\ has_naima' = "False"
              /\ warned' = warned \cup {"NaimaNotAvailable"}
              /\ pc' = "import_gsl"
         ELSE /\ has_naima' = has_naima
              /\ warned' = warned
              /\ pc' = "failed"
    /\ UNCHANGED <<imp, has_gsl, classes, sys>>
    /\ UNCHANGED <<unitVars, synVars, evalVars>>

\* try: from pygsl.testing.sf import gamma_inc ... except ImportError: ...
ImportGsl ==
    /\ pc = "import_gsl"
    /\ IF imp.gsl = "ok"
         THEN /\ has_gsl' = "True"
              /\ warned' = warned
              /\ pc' = "classes"
         ELSE IF imp.gsl = "ImportError"
         THEN /\ has_gsl' = "False"
              /\ warned' = warned \cup {"GSLNotAvailable"}
              /\ pc' = "classes"
         ELSE /\ has_gsl' = has_gsl
              /\ warned' = warned
              /\ pc' = "failed"
    /\ UNCHANGED <<imp, has_naima, classes, sys>>
    /\ UNCHANGED <<unitVars, synVars, evalVars>>

\* the class statements from powerlaw down to sin
FirstClasses == {"powerlaw", "powerlaw_flux", "broken_powerlaw", "gaussian",
                 "uniform_prior", "log_uniform_prior", "sin"}

\* the class statements from line down to log_parabola
MoreClasses == {"line", "identity", "bias", "band", "log_parabola"}

DefineFirstClasses ==
    /\ pc = "classes"
    /\ classes' = classes \cup FirstClasses
    /\ pc' = "if_has_naima"
    /\ UNCHANGED <<imp, has_naima, has_gsl, warned, sys>>
    /\ UNCHANGED <<unitVars, synVars, evalVars>>

\* the class statement without its "if has_naima:"
DefineSynchrotronAlways ==
    /\ pc = "if_has_naima"
    /\ classes' = classes \cup {"synchrotron"}
    /\ pc' = "more_classes"
    /\ UNCHANGED <<imp, has_naima, has_gsl, warned, sys>>
    /\ UNCHANGED <<unitVars, synVars, evalVars>>

\* if has_naima: class synchrotron
DefineSynchrotron ==
    /\ pc = "if_has_naima"
    /\ classes' = IF has_naima = "True" THEN classes \cup {"synchrotron"} ELSE classes
    /\ pc' = "more_classes"
    /\ UNCHANGED <<imp, has_naima, has_gsl, warned, sys>>
    /\ UNCHANGED <<unitVars, synVars, evalVars>>

DefineMoreClasses ==
    /\ pc = "more_classes"
    /\ classes' = classes \cup MoreClasses
    /\ pc' = "if_has_gsl"
    /\ UNCHANGED <<imp, has_naima, has_gsl, warned, sys>>
    /\ UNCHANGED <<unitVars, synVars, evalVars>>

\* if has_gsl: class cutoff_powerlaw_flux
DefineCutoffPowerlawFlux ==
    /\ pc = "if_has_gsl"
    /\ classes' = IF has_gsl = "True" THEN classes \cup {"cutoff_powerlaw_flux"} ELSE classes
    /\ pc' = "loaded"
    /\ UNCHANGED <<imp, has_naima, has_gsl, warned, sys>>
    /\ UNCHANGED <<unitVars, synVars, evalVars>>

\* the classes a finished load has defined
LoadedClasses(naima, gsl) ==
    FirstClasses \cup MoreClasses
        \cup (IF naima THEN {"synchrotron"} ELSE {})
        \cup (IF gsl THEN {"cutoff_powerlaw_flux"} ELSE {})

(***************************************************************************)
(* The parameters of each class (its docstring) with their declared units.  *)
(***************************************************************************)
Undeclared(names) == [p \in names |-> NoUnit]

Parameters(cls) ==
    CASE cls = "powerlaw"          -> Undeclared({"K", "piv", "index"})
      [] cls = "powerlaw_flux"     -> Undeclared({"F", "index", "a", "b"})
      [] cls = "broken_powerlaw"   -> Undeclared({"K", "xb", "alpha", "beta"})
      [] cls = "gaussian"          -> Undeclared({"F", "mu", "sigma"})
      [] cls = "uniform_prior"     -> Undeclared({"lower_bound", "upper_bound", "value"})
      [] cls = "log_uniform_prior" -> Undeclared({"lower_bound", "upper_bound"})
      [] cls = "sin"               -> [K |-> NoUnit, f |-> NoUnit, phi |-> rad]
      [] cls = "synchrotron"       -> [B |-> Gauss, distance |-> kpc, emin |-> GeV,
                                       emax |-> GeV, need |-> NoUnit]
      [] cls = "line"              -> Undeclared({"a", "b"})
      [] cls = "identity"          -> Undeclared({})
      [] cls = "bias"              -> Undeclared({"k"})
      [] cls = "band"              -> Undeclared({"alpha", "beta", "xp", "F", "a", "b", "opt"})
      [] cls = "log_parabola"      -> Undeclared({"K", "piv", "alpha", "beta"})
      [] cls = "cutoff_powerlaw_flux" -> Undeclared({"F", "alpha", "xc", "a", "b"})

(***************************************************************************)
(* _set_units of each class.  u is the instance's parameter units; the      *)
(* result is the units the call leaves and the exception it raises.         *)
(***************************************************************************)
Returns(u) == [unit |-> u, exc |-> NoExc]
Raises(u, e) == [unit |-> u, exc |-> e]

powerlaw_set_units(u, x_unit, y_unit) ==
    Returns([u EXCEPT !.index = dimensionless_unscaled, !.piv = x_unit, !.K = y_unit])

powerlaw_flux_set_units(u, x_unit, y_unit) ==
    Returns([u EXCEPT !.F = UMul(y_unit, x_unit), !.index = dimensionless_unscaled,
                      !.a = x_unit, !.b = x_unit])

broken_powerlaw_set_units(u, x_unit, y_unit) ==
    Returns([u EXCEPT !.K = y_unit, !.xb = x_unit,
                      !.alpha = dimensionless_unscaled,
                      !.beta = dimensionless_unscaled])

gaussian_set_units(u, x_unit, y_unit) ==
    Returns([u EXCEPT !.F = UMul(y_unit, x_unit), !.mu = x_unit, !.sigma = x_unit])

uniform_prior_set_units(u, x_unit, y_unit) ==
    Returns([u EXCEPT !.lower_bound = x_unit, !.upper_bound = x_unit,
                      !.value = y_unit])

log_uniform_prior_set_units(u, x_unit, y_unit) ==
    Returns([u EXCEPT !.lower_bound = x_unit, !.upper_bound = x_unit])

sin_set_units(u, x_unit, y_unit) ==
    Returns([u EXCEPT !.K = y_unit, !.f = UPow(x_unit, -1), !.phi = rad])

\* the check of x_unit alone
synchrotron_set_units_x_only(u, x_unit, y_unit) ==
    IF IsEnergy(x_unit)
      THEN Returns(u)
      ELSE Raises(u, "InvalidUsageForFunction")

\* raises unless x_unit is an energy and y_unit times
\* photon_energy * time * area is dimensionless; assigns nothing
synchrotron_set_units(u, x_unit, y_unit) ==
    IF IsEnergy(x_unit)
      THEN LET current_units == get_units
               should_be_unitless ==
                   UMul(y_unit, UMul(UMul(current_units.photon_energy,
                                          current_units.time),
                                     current_units.area))
           IN  IF ~ IsDimensionless(should_be_unitless)
                 THEN Raises(u, "InvalidUsageForFunction")
                 ELSE Returns(u)
      ELSE Raises(u, "InvalidUsageForFunction")

\* a is divided by x_unit in place once it has a unit
line_set_units_in_place(u, x_unit, y_unit) ==
    Returns([u EXCEPT !.a = UDiv(IF u.a = NoUnit THEN y_unit ELSE u.a, x_unit),
                      !.b = y_unit])

line_set_units(u, x_unit, y_unit) ==
    Returns([u EXCEPT !.a = UDiv(y_unit, x_unit), !.b = y_unit])

identity_set_units(u, x_unit, y_unit) == Returns(u)

\* the units compared by dimension only (is_equivalent)
bias_set_units_equivalent(u, x_unit, y_unit) ==
    LET u1 == [u EXCEPT !.k = x_unit]
    IN  IF ~ IsDimensionless(UDiv(x_unit, y_unit))
          THEN Raises(u1, "InvalidUsageForFunction")
          ELSE Returns(u1)

\* k is assigned before the units are compared
bias_set_units(u, x_unit, y_unit) ==
    LET u1 == [u EXCEPT !.k = x_unit]
    IN  IF x_unit # y_unit
          THEN Raises(u1, "InvalidUsageForFunction")
          ELSE Returns(u1)

band_set_units(u, x_unit, y_unit) ==
    Returns([u EXCEPT !.alpha = dimensionless_unscaled,
                      !.beta = dimensionless_unscaled,
                      !.xp = x_unit,
                      !.F = UMul(y_unit, x_unit),
                      !.a = x_unit, !.b = x_unit,
                      !.opt = dimensionless_unscaled])

log_parabola_set_units(u, x_unit, y_unit) ==
    Returns([u EXCEPT !.K = y_unit, !.piv = x_unit,
                      !.alpha = dimensionless_unscaled,
                      !.beta = dimensionless_unscaled])

cutoff_powerlaw_flux_set_units(u, x_unit, y_unit) ==
    Returns([u EXCEPT !.F = UMul(y_unit, x_unit),
                      !.alpha = dimensionless_unscaled,
                      !.xc = x_unit, !.a = x_unit, !.b = x_unit])

\* obj._set_units(x_unit, y_unit): the method of obj's class
set_units(cls, u, x_unit, y_unit) ==
    CASE cls = "powerlaw"          -> powerlaw_set_units(u, x_unit, y_unit)
      [] cls = "powerlaw_flux"     -> powerlaw_flux_set_units(u, x_unit, y_unit)
      [] cls = "broken_powerlaw"   -> broken_powerlaw_set_units(u, x_unit, y_unit)
      [] cls = "gaussian"          -> gaussian_set_units(u, x_unit, y_unit)
      [] cls = "uniform_prior"     -> uniform_prior_set_units(u, x_unit, y_unit)
      [] cls = "log_uniform_prior" -> log_uniform_prior_set_units(u, x_unit, y_unit)
      [] cls = "sin"               -> sin_set_units(u, x_unit, y_unit)
      [] cls = "synchrotron"       -> synchrotron_set_units(u, x_unit, y_unit)
      [] cls = "line"              -> line_set_units(u, x_unit, y_unit)
      [] cls = "identity"          -> identity_set_units(u, x_unit, y_unit)
      [] cls = "bias"              -> bias_set_units(u, x_unit, y_unit)
      [] cls = "band"              -> band_set_units(u, x_unit, y_unit)
      [] cls = "log_parabola"      -> log_parabola_set_units(u, x_unit, y_unit)
      [] cls = "cutoff_powerlaw_flux" -> cutoff_powerlaw_flux_set_units(u, x_unit, y_unit)

(***************************************************************************)
(* One function instance: construction and _set_units calls.                *)
(***************************************************************************)
\* cls(): an instance of a class the module has defined
Construct(cls) ==
    /\ pc = "loaded"
    /\ self = None
    /\ cls \in classes
    /\ self' = [cls |-> cls, unit |-> Parameters(cls)]
    /\ UNCHANGED <<last, lastOk, snap>>
    /\ UNCHANGED <<loadVars, sys, synVars, evalVars>>

\* self._set_units(x_unit, y_unit)
SetUnits(x_unit, y_unit) ==
    /\ self # None
    /\ LET r == set_units(self.cls, self.unit, x_unit, y_unit)
           pair == [x |-> x_unit, y |-> y_unit]
       IN  /\ self' = [self EXCEPT !.unit = r.unit]
           /\ last' = [x |-> x_unit, y |-> y_unit, exc |-> r.exc,
                       again |-> (lastOk = pair), before |-> snap,
                       prev |-> self.unit]
           /\ lastOk' = IF r.exc = NoExc THEN pair ELSE lastOk
           /\ snap' = IF r.exc = NoExc THEN r.unit ELSE snap
    /\ UNCHANGED <<loadVars, sys, synVars, evalVars>>

Init ==
    /\ pc = "import_naima"
    /\ imp \in [naima : ImportOutcomes, gsl : ImportOutcomes]
    /\ has_naima = "unset"
    /\ has_gsl = "unset"
    /\ warned = {}
    /\ classes = {}
    /\ sys \in UnitSystems
    /\ self = None
    /\ last = None
    /\ lastOk = None
    /\ snap = None
    /\ syn = None
    /\ dist = <<>>
    /\ assigned = None
    /\ out = None
    /\ call = None
    /\ ret = None

Next ==
    \/ ImportNaima
    \/ ImportGsl
    \/ DefineFirstClasses
    \/ DefineSynchrotron
    \/ DefineMoreClasses
    \/ DefineCutoffPowerlawFlux
    \/ \E cls \in LoadedClasses(TRUE, TRUE) : Construct(cls)
    \/ \E x_unit \in XUnits, y_unit \in YUnits : SetUnits(x_unit, y_unit)

Spec == Init /\ [][Next]_vars

(***************************************************************************)
(* A synchrotron instance and its particle distribution.                    *)
(***************************************************************************)
\* the classes of the functions assigned as particle distribution
DistClasses == {"powerlaw", "log_parabola", "bias", "synchrotron"}

\* cls(): one more function instance
NewFunction(cls) ==
    /\ syn # None
    /\ Len(dist) < MaxDist
    /\ cls \in classes
    /\ dist' = Append(dist, [cls |-> cls, unit |-> Parameters(cls)])
    /\ UNCHANGED <<syn, assigned, out>>
    /\ UNCHANGED <<loadVars, sys, unitVars, evalVars>>

\* synchrotron.set_particle_distribution(function), function being dist[i]:
\* the attribute is stored, then function._set_units is called, and the
\* adapter is built only if that call returns
set_particle_distribution(s, d, i) ==
    LET current_units == get_units
        x_unit == current_units.particle_energy
        y_unit == UPow(current_units.particle_energy, -1)
        r == set_units(d[i].cls, d[i].unit, x_unit, y_unit)
        s1 == [s EXCEPT !.particle_distribution = [ref |-> i]]
    IN  [syn |-> IF r.exc = NoExc
                   THEN [s1 EXCEPT !.particle_distribution_wrapper =
                                       [function |-> i,
                                        current_units |-> current_units]]
                   ELSE s1,
         dist |-> [d EXCEPT ![i].unit = r.unit],
         x_unit |-> x_unit, y_unit |-> y_unit, exc |-> r.exc]

\* self.particle_distribution = dist[i]
SetParticleDistribution(i) ==
    /\ syn # None
    /\ i \in 1..Len(dist)
    /\ LET r == set_particle_distribution(syn, dist, i)
       IN  /\ syn' = r.syn
           /\ dist' = r.dist
           /\ assigned' = [function |-> i, x_unit |-> r.x_unit,
                           y_unit |-> r.y_unit, exc |-> r.exc,
                           wrapper_before |-> syn.particle_distribution_wrapper]
    /\ out' = None
    /\ UNCHANGED <<loadVars, sys, unitVars, evalVars>>

\* synchrotron.get_particle_distribution(): the stored attribute
get_particle_distribution(s) ==
    IF s.particle_distribution = None
      THEN [op |-> "get", exc |-> "AttributeError", value |-> None]
      ELSE [op |-> "get", exc |-> NoExc, value |-> s.particle_distribution]

\* self.particle_distribution
GetParticleDistribution ==
    /\ syn # None
    /\ out' = get_particle_distribution(syn)
    /\ UNCHANGED <<syn, dist, assigned>>
    /\ UNCHANGED <<loadVars, sys, unitVars, evalVars>>

\* the adapter: lambda x: function(x.value) / current_units.particle_energy
\* x is a quantity [value, unit]; the result is function applied to the bare
\* value, with the unit 1 / particle_energy
particle_distribution_wrapper(w, x) ==
    [op |-> "wrapper", exc |-> NoExc,
     value |-> [function |-> w.function, arg |-> x.value,
                unit |-> UDiv(dimensionless_unscaled,
                              w.current_units.particle_energy)]]

\* self._particle_distribution_wrapper(x), as naima calls it
CallWrapper(x) ==
    /\ syn # None
    /\ syn.particle_distribution_wrapper # None
    /\ out' = particle_distribution_wrapper(syn.particle_distribution_wrapper, x)
    /\ UNCHANGED <<syn, dist, assigned>>
    /\ UNCHANGED <<loadVars, sys, unitVars, evalVars>>

\* the quantities naima hands to the adapter
Quantities == {[value |-> v, unit |-> Energy(k)] : v \in 1..MaxArg, k \in 0..MaxScale}

\* what the naima library does with a call it is given: it returns a flux
\* or raises an error of its own
NaimaOutcomes == {"ok", "NaimaError"}

\* synchrotron.evaluate: the adapter attribute is read first, then naima
\* computes the flux with it
synchrotron_evaluate(s, naima) ==
    IF s.particle_distribution_wrapper = None
      THEN [op |-> "evaluate", exc |-> "AttributeError", value |-> None]
    ELSE IF naima # "ok"
      THEN [op |-> "evaluate", exc |-> naima, value |-> None]
    ELSE [op |-> "evaluate", exc |-> NoExc,
          value |-> [flux |-> s.particle_distribution_wrapper.function]]

\* self.evaluate(x, B, distance, emin, emax, need)
SynchrotronEvaluate(naima) ==
    /\ syn # None
    /\ out' = synchrotron_evaluate(syn, naima)
    /\ UNCHANGED <<syn, dist, assigned>>
    /\ UNCHANGED <<loadVars, sys, unitVars, evalVars>>

\* synchrotron.to_dict(minimal): the inherited dictionary, and unless minimal
\* the path of the stored particle distribution
to_dict(s, minimal) ==
    LET data == [parameters |-> DOMAIN s.unit]
        pd == get_particle_distribution(s)
    IN  IF minimal
          THEN [op |-> "to_dict", minimal |-> TRUE, exc |-> NoExc, value |-> data]
        ELSE IF pd.exc # NoExc
          THEN [op |-> "to_dict", minimal |-> FALSE, exc |-> pd.exc, value |-> None]
        ELSE [op |-> "to_dict", minimal |-> FALSE, exc |-> NoExc,
              value |-> [parameters |-> data.parameters,
                         extra_setup |-> [particle_distribution |-> pd.value]]]

\* self.to_dict(minimal)
ToDict(minimal) ==
    /\ syn # None
    /\ out' = to_dict(syn, minimal)
    /\ UNCHANGED <<syn, dist, assigned>>
    /\ UNCHANGED <<loadVars, sys, unitVars, evalVars>>

\* the module loaded with naima available, and a new synchrotron instance
InitSynch ==
    /\ pc = "loaded"
    /\ imp \in [naima : {"ok"}, gsl : {"ok", "ImportError"}]
    /\ has_naima = "True"
    /\ has_gsl = (IF imp.gsl = "ok" THEN "True" ELSE "False")
    /\ warned = (IF imp.gsl = "ok" THEN {} ELSE {"GSLNotAvailable"})
    /\ classes = LoadedClasses(TRUE, imp.gsl = "ok")
    /\ sys \in UnitSystems
    /\ self = None
    /\ last = None
    /\ lastOk = None
    /\ snap = None
    /\ syn = [unit |-> Parameters("synchrotron"),
              particle_distribution |-> None,
              particle_distribution_wrapper |-> None]
    /\ dist = <<>>
    /\ assigned = None
    /\ out = None
    /\ call = None
    /\ ret = None

NextSynch ==
    \/ \E cls \in DistClasses : NewFunction(cls)
    \/ \E i \in 1..MaxDist : SetParticleDistribution(i)
    \/ GetParticleDistribution
    \/ \E x \in Quantities : CallWrapper(x)
    \/ \E naima \in NaimaOutcomes : SynchrotronEvaluate(naima)
    \/ \E minimal \in BOOLEAN : ToDict(minimal)

SpecSynch == InitSynch /\ [][NextSynch]_vars

(***************************************************************************)
(* Numbers.  A rational is [n, d] in lowest terms with d > 0.  A product of  *)
(* powers is kept as a sign and the exponent of each prime, so that large    *)
(* powers need no large integers; zero, inf and nan are values of their own. *)
(***************************************************************************)
Abs(n) == IF n < 0 THEN 0 - n ELSE n

Sign(n) == IF n < 0 THEN -1 ELSE IF n = 0 THEN 0 ELSE 1

RECURSIVE GCD(_, _)
GCD(m, n) == IF n = 0 THEN m ELSE GCD(n, m % n)

\* n / d for d # 0
Rat(n, d) ==
    LET g == GCD(Abs(n), Abs(d))
    IN  [n |-> (Sign(d) * n) \div g, d |-> Abs(d) \div g]

FromInt(n) == [n |-> n, d |-> 1]

RMul(r, t) == Rat(r.n * t.n, r.d * t.d)

\* r / t for t # 0
RDiv(r, t) == Rat(r.n * t.d, r.d * t.n)

RNeg(r) == [n |-> 0 - r.n, d |-> r.d]

RLt(r, t) == r.n * t.d < t.n * r.d

RLe(r, t) == r.n * t.d <= t.n * r.d

Primes == {2, 3, 5, 7, 11, 13}

\* the exponent of the prime p in n >= 1
RECURSIVE Multiplicity(_, _)
Multiplicity(p, n) == IF n % p = 0 THEN 1 + Multiplicity(p, n \div p) ELSE 0

Zero == [k |-> "zero"]
NaN  == [k |-> "nan"]
Inf  == [k |-> "inf", s |-> 1]
One  == [k |-> "num", s |-> 1, e |-> [p \in Primes |-> 0]]

\* the value of a rational
FromRat(r) ==
    IF r.n = 0 THEN Zero
    ELSE [k |-> "num", s |-> Sign(r.n),
          e |-> [p \in Primes |-> Multiplicity(p, Abs(r.n)) - Multiplicity(p, r.d)]]

\* IEEE multiplication
VMul(u, v) ==
    IF u.k = "nan" \/ v.k = "nan" THEN NaN
    ELSE IF (u.k = "zero" /\ v.k = "inf") \/ (u.k = "inf" /\ v.k = "zero") THEN NaN
    ELSE IF u.k = "zero" \/ v.k = "zero" THEN Zero
    ELSE IF u.k = "inf" \/ v.k = "inf" THEN [k |-> "inf", s |-> u.s * v.s]
    ELSE [k |-> "num", s |-> u.s * v.s, e |-> [p \in Primes |-> u.e[p] + v.e[p]]]

\* np.power(r, n) and pow(r, n) for a rational r and an integer n, r # 0 or
\* n >= 0
Power(r, n) ==
    IF n = 0 THEN One
    ELSE IF r.n = 0 THEN Zero
    ELSE LET v == FromRat(r)
         IN  [k |-> "num", s |-> (IF n % 2 = 0 THEN 1 ELSE v.s),
              e |-> [p \in Primes |-> n * v.e[p]]]

\* np.power(r, n) on array elements: 0 to a negative power is inf
np_power(r, n) == IF r.n = 0 /\ n < 0 THEN Inf ELSE Power(r, n)

(***************************************************************************)
(* evaluate of the priors and of broken_powerlaw, on one element x of the   *)
(* input array.                                                            *)
(***************************************************************************)
Value(v) == [exc |-> NoExc, value |-> v]

\* np.where on one element; both alternatives are computed before
np_where(cond, v, w) == IF cond THEN v ELSE w

\* the interval with one boundary excluded
uniform_prior_evaluate_open(x, lower_bound, upper_bound, value) ==
    Value(np_where(x > lower_bound /\ x <= upper_bound,
                   FromRat(FromInt(value)), Zero))

uniform_prior_evaluate(x, lower_bound, upper_bound, value) ==
    Value(np_where(x >= lower_bound /\ x <= upper_bound,
                   FromRat(FromInt(value)), Zero))

\* 1.0 / x on an array element: inf at x = 0
Reciprocal(x) == IF x = 0 THEN Inf ELSE FromRat(Rat(1, x))

log_uniform_prior_evaluate(x, lower_bound, upper_bound) ==
    Value(np_where(x > lower_bound /\ x < upper_bound, Reciprocal(x), Zero))

\* K * np.where(x < xb, np.power(x, alpha), np.power(x, beta))
broken_powerlaw_evaluate(x, K, xb, alpha, beta) ==
    Value(VMul(FromRat(FromInt(K)),
               np_where(x < xb, np_power(FromInt(x), alpha),
                        np_power(FromInt(x), beta))))

(***************************************************************************)
(* band.  The incomplete gamma integral is kept as a term: which integral,  *)
(* over which limits, whether it is finite and whether it is exactly zero.   *)
(***************************************************************************)
Raise(e) == [exc |-> e]

\* ggrb_int_cpl(a, Ec, Emin, Emax): Emin / Ec divides by zero for Ec = 0;
\* gamma(2 + a) has a pole for 2 + a <= 0; equal limits give i2 = i1
ggrb_int_cpl(a, Ec, Emin, Emax) ==
    IF Ec.n = 0 THEN Raise("ZeroDivisionError")
    ELSE [exc |-> NoExc,
          value |-> [f |-> "ggrb_int_cpl", a |-> a, Ec |-> Ec,
                     Emin |-> Emin, Emax |-> Emax],
          finite |-> (2 + a > 0),
          zero |-> (2 + a > 0 /\ Emin = Emax)]

\* ggrb_int_pl(a, b, Ec, Emin, Emax), in Python floats: pow of 0.0 to a
\* negative power and division by 0.0 raise, log of a number <= 0 raises
ggrb_int_pl(a, b, Ec, Emin, Emax) ==
    IF Ec.n = 0 /\ b # 0 THEN Raise("ZeroDivisionError")
    ELSE IF b # -2
      THEN IF (Emax.n = 0 \/ Emin.n = 0) /\ 2 + b < 0
             THEN Raise("ZeroDivisionError")
             ELSE [exc |-> NoExc,
                   value |-> [f |-> "ggrb_int_pl", a |-> a, b |-> b, Ec |-> Ec,
                              Emin |-> Emin, Emax |-> Emax],
                   finite |-> TRUE,
                   zero |-> (Power(Emax, 2 + b) = Power(Emin, 2 + b))]
      ELSE IF Emin.n = 0 THEN Raise("ZeroDivisionError")
      ELSE IF ~ RLt(FromInt(0), RDiv(Emax, Emin)) THEN Raise("ValueError")
      ELSE [exc |-> NoExc,
            value |-> [f |-> "ggrb_int_pl", a |-> a, b |-> b, Ec |-> Ec,
                       Emin |-> Emin, Emax |-> Emax],
            finite |-> TRUE,
            zero |-> (Emax = Emin)]

\* the cutoff energy: xp / 0.0001 for alpha == -2, else xp / (2 + alpha)
CutoffEnergy(alpha, xp) ==
    IF alpha = -2 THEN Rat(xp * 10000, 1) ELSE Rat(xp, 2 + alpha)

\* the split energy (alpha - beta) * Ec
SplitEnergy(alpha, beta, Ec) == RMul(FromInt(alpha - beta), Ec)

\* the integrated flux with the power law part taken over all of [a, b]
\* when Esplit lies in the band
IntegratedFluxWholeBand(alpha, beta, Ec, Esplit, a, b, opt) ==
    IF opt = 0
      THEN LET c == ggrb_int_cpl(alpha, Ec, a, b)
           IN  IF c.exc # NoExc THEN c
               ELSE [exc |-> NoExc, case |-> "cpl", terms |-> <<c.value>>,
                     finite |-> c.finite, zero |-> c.zero, numpy |-> TRUE]
    ELSE IF RLe(a, Esplit) /\ RLe(Esplit, b)
      THEN LET c == ggrb_int_cpl(alpha, Ec, a, Esplit)
               q == ggrb_int_pl(alpha, beta, Ec, a, b)
           IN  IF c.exc # NoExc THEN c
               ELSE IF q.exc # NoExc THEN q
               ELSE [exc |-> NoExc, case |-> "cpl+pl",
                     terms |-> <<c.value, q.value>>,
                     finite |-> c.finite,
                     zero |-> (c.zero /\ q.zero), numpy |-> TRUE]
    ELSE IF RLt(Esplit, a)
      THEN LET q == ggrb_int_pl(alpha, beta, Ec, a, b)
           IN  IF q.exc # NoExc THEN q
               ELSE [exc |-> NoExc, case |-> "pl", terms |-> <<q.value>>,
                     finite |-> TRUE, zero |-> q.zero, numpy |-> FALSE]
    ELSE Raise("RuntimeError")

\* the integrated flux chosen by opt and by where Esplit lies (a, b and
\* Esplit are rationals)
IntegratedFlux(alpha, beta, Ec, Esplit, a, b, opt) ==
    IF opt = 0
      THEN LET c == ggrb_int_cpl(alpha, Ec, a, b)
           IN  IF c.exc # NoExc THEN c
               ELSE [exc |-> NoExc, case |-> "cpl", terms |-> <<c.value>>,
                     finite |-> c.finite, zero |-> c.zero, numpy |-> TRUE]
    ELSE IF RLe(a, Esplit) /\ RLe(Esplit, b)
      THEN LET c == ggrb_int_cpl(alpha, Ec, a, Esplit)
               q == ggrb_int_pl(alpha, beta, Ec, Esplit, b)
           IN  IF c.exc # NoExc THEN c
               ELSE IF q.exc # NoExc THEN q
               ELSE [exc |-> NoExc, case |-> "cpl+pl",
                     terms |-> <<c.value, q.value>>,
                     finite |-> c.finite,
                     zero |-> (c.zero /\ q.zero), numpy |-> TRUE]
    ELSE IF RLt(Esplit, a)
      THEN LET q == ggrb_int_pl(alpha, beta, Ec, a, b)
           IN  IF q.exc # NoExc THEN q
               ELSE [exc |-> NoExc, case |-> "pl", terms |-> <<q.value>>,
                     finite |-> TRUE, zero |-> q.zero, numpy |-> FALSE]
    ELSE Raise("RuntimeError")

\* norm = F * erg2keV / intflux.  A zero intflux raises when it is a Python
\* float (ggrb_int_pl alone) and gives inf or nan when it is a numpy float
Normalization(F, intflux) ==
    IF ~ intflux.finite
      THEN [exc |-> NoExc,
            value |-> [F |-> F, erg2keV |-> "6.24151e8", intflux |-> intflux.terms,
                       kind |-> "nan"]]
    ELSE IF intflux.zero /\ ~ intflux.numpy THEN Raise("ZeroDivisionError")
    ELSE [exc |-> NoExc,
          value |-> [F |-> F, erg2keV |-> "6.24151e8", intflux |-> intflux.terms,
                     kind |-> IF intflux.zero
                                THEN (IF F = 0 THEN "nan" ELSE "inf")
                                ELSE (IF F = 0 THEN "zero" ELSE "num")]]

\* a flux norm * coef * e^eexp
Flux(norm, coef, eexp) == [norm |-> norm, coef |-> coef, eexp |-> eexp]

\* a flux that is nan because x / Ec is 0 / 0
FluxNaN(norm) == [norm |-> norm, coef |-> NaN, eexp |-> FromInt(0)]

\* the high-energy branch with exp(alpha - beta) for exp(beta - alpha)
HighBranchWrongSign(norm, x, Ec, alpha, beta) ==
    IF Ec.n = 0 THEN FluxNaN(norm)
    ELSE Flux(norm,
              VMul(Power(FromInt(alpha - beta), alpha - beta),
                   np_power(RDiv(x, Ec), beta)),
              FromInt(alpha - beta))

\* norm * np.power(x / Ec, alpha) * np.exp(-x / Ec), x a rational
LowBranch(norm, x, Ec, alpha) ==
    IF Ec.n = 0 THEN FluxNaN(norm)
    ELSE Flux(norm, np_power(RDiv(x, Ec), alpha), RNeg(RDiv(x, Ec)))

\* norm * pow(alpha - beta, alpha - beta) * math.exp(beta - alpha)
\*      * np.power(x / Ec, beta), x a rational
HighBranch(norm, x, Ec, alpha, beta) ==
    IF Ec.n = 0 THEN FluxNaN(norm)
    ELSE Flux(norm,
              VMul(Power(FromInt(alpha - beta), alpha - beta),
                   np_power(RDiv(x, Ec), beta)),
              FromInt(beta - alpha))

\* band.evaluate on one element x of the input array
band_evaluate(x, alpha, beta, xp, F, a, b, opt) ==
    IF ~ (opt = 0 \/ opt = 1) THEN Raise("AssertionError")
    ELSE LET Ec == CutoffEnergy(alpha, xp)
             Esplit == SplitEnergy(alpha, beta, Ec)
             intflux == IntegratedFlux(alpha, beta, Ec, Esplit,
                                       FromInt(a), FromInt(b), opt)
         IN  IF intflux.exc # NoExc THEN Raise(intflux.exc)
             ELSE LET norm == Normalization(F, intflux)
                  IN  IF norm.exc # NoExc THEN Raise(norm.exc)
                      ELSE [exc |-> NoExc,
                            intflux |-> [case |-> intflux.case,
                                         terms |-> intflux.terms],
                            norm |-> norm.value,
                            value |->
                                IF opt = 0
                                  THEN LowBranch(norm.value, FromInt(x), Ec, alpha)
                                  ELSE IF RLt(FromInt(x), Esplit)
                                    THEN LowBranch(norm.value, FromInt(x), Ec, alpha)
                                    ELSE HighBranch(norm.value, FromInt(x), Ec,
                                                    alpha, beta)]

(***************************************************************************)
(* evaluate calls: the arguments are drawn first, then the method runs.     *)
(***************************************************************************)
Indices == (0 - MaxIndex)..0

BandCalls ==
    [fn : {"band"}, x : 1..MaxX, alpha : Indices, beta : (0 - MaxIndex)..(-1),
     xp : 0..MaxXp, F : 0..MaxNorm, a : 0..MaxBand, b : 0..MaxBand, opt : 0..2]

UniformPriorCalls ==
    [fn : {"uniform_prior"}, x : (-1)..(MaxX + 1), lower_bound : 0..MaxBound,
     upper_bound : 0..(MaxBound + 1), value : 0..(MaxNorm + 1)]

LogUniformPriorCalls ==
    [fn : {"log_uniform_prior"}, x : (-1)..(MaxX + 1), lower_bound : 0..MaxBound,
     upper_bound : 0..(MaxBound + 1)]

BrokenPowerlawCalls ==
    [fn : {"broken_powerlaw"}, x : 1..(MaxX + 1), K : 0..(MaxNorm + 1),
     xb : 1..MaxBound, alpha : Indices, beta : Indices]

BandEvaluate ==
    /\ call # None /\ call.fn = "band" /\ ret = None
    /\ ret' = band_evaluate(call.x, call.alpha, call.beta, call.xp, call.F,
                            call.a, call.b, call.opt)
    /\ UNCHANGED <<call, loadVars, sys, unitVars, synVars>>

UniformPriorEvaluate ==
    /\ call # None /\ call.fn = "uniform_prior" /\ ret = None
    /\ ret' = uniform_prior_evaluate(call.x, call.lower_bound, call.upper_bound,
                                     call.value)
    /\ UNCHANGED <<call, loadVars, sys, unitVars, synVars>>

LogUniformPriorEvaluate ==
    /\ call # None /\ call.fn = "log_uniform_prior" /\ ret = None
    /\ ret' = log_uniform_prior_evaluate(call.x, call.lower_bound,
                                         call.upper_bound)
    /\ UNCHANGED <<call, loadVars, sys, unitVars, synVars>>

BrokenPowerlawEvaluate ==
    /\ call # None /\ call.fn = "broken_powerlaw" /\ ret = None
    /\ ret' = broken_powerlaw_evaluate(call.x, call.K, call.xb, call.alpha,
                                       call.beta)
    /\ UNCHANGED <<call, loadVars, sys, unitVars, synVars>>

\* the module loaded, and the arguments of one evaluate call
InitEval ==
    /\ pc = "loaded"
    /\ imp = [naima |-> "ok", gsl |-> "ok"]
    /\ has_naima = "True"
    /\ has_gsl = "True"
    /\ warned = {}
    /\ classes = LoadedClasses(TRUE, TRUE)
    /\ sys = [photon_energy |-> keV, time |-> second, area |-> cm2,
              particle_energy |-> keV]
    /\ self = None
    /\ last = None
    /\ lastOk = None
    /\ snap = None
    /\ syn = None
    /\ dist = <<>>
    /\ assigned = None
    /\ out = None
    /\ call \in BandCalls \cup UniformPriorCalls \cup LogUniformPriorCalls
                 \cup BrokenPowerlawCalls
    /\ ret = None

NextEval ==
    \/ BandEvaluate
    \/ UniformPriorEvaluate
    \/ LogUniformPriorEvaluate
    \/ BrokenPowerlawEvaluate

SpecEval == InitEval /\ [][NextEval]_vars

(***************************************************************************)
(* Properties of unit assignment and of module load, checked under Spec.    *)
(***************************************************************************)
IsBias == self # None /\ self.cls = "bias"
IsSynchrotron == self # None /\ self.cls = "synchrotron"

\* C3: bias._set_units(x_unit, y_unit) raises InvalidUsageForFunction
\* whenever x_unit differs from y_unit and returns whenever they are equal.
C3_BiasRejectsMismatch ==
    (IsBias /\ last # None) =>
        /\ (last.x # last.y) => last.exc = "InvalidUsageForFunction"
        /\ (last.x = last.y) => last.exc = NoExc

C3_Witness ==
    /\ IsBias /\ last # None
    /\ last.x = Energy(1) /\ last.y = keV
    /\ last.exc = "InvalidUsageForFunction"

\* the photon energy * time * area of the configured unit system
FluxDenominator == UMul(UMul(sys.photon_energy, sys.time), sys.area)

\* C4: synchrotron._set_units raises InvalidUsageForFunction when x_unit is
\* not an energy, and when x_unit is an energy but y_unit * (photon energy *
\* time * area) is not dimensionless; it returns only when both checks pass.
C4_SynchrotronChecksBothAxes ==
    (IsSynchrotron /\ last # None) =>
        /\ ~ IsEnergy(last.x) => last.exc = "InvalidUsageForFunction"
        /\ (IsEnergy(last.x) /\ ~ IsDimensionless(UMul(last.y, FluxDenominator)))
               => last.exc = "InvalidUsageForFunction"
        /\ last.exc = NoExc =>
               (IsEnergy(last.x) /\ IsDimensionless(UMul(last.y, FluxDenominator)))

C4_Witness ==
    /\ IsSynchrotron /\ last # None
    /\ IsEnergy(last.x) /\ last.y = second
    /\ last.exc = "InvalidUsageForFunction"

\* C5: a _set_units call with the same (x_unit, y_unit) as the previous call
\* that returned leaves every parameter's unit as it was after that call.
C5_SetUnitsIdempotent ==
    (self # None /\ last # None /\ last.again) => self.unit = last.before

C5_Witness ==
    /\ self # None /\ self.cls = "band"
    /\ last # None /\ last.again
    /\ self.unit.F = UMul(last.y, last.x)

\* The unit the claim C6 gives each parameter, from the call's units.
DeclaredUnit(cls, p, x_unit, y_unit) ==
    CASE cls = "synchrotron" -> Parameters(cls)[p]
      [] cls = "line" /\ p = "a" -> UDiv(y_unit, x_unit)
      [] cls = "line" /\ p = "b" -> y_unit
      [] cls = "sin" /\ p = "f" -> UPow(x_unit, -1)
      [] cls = "sin" /\ p = "phi" -> rad
      [] cls = "bias" /\ p = "k" -> x_unit
      [] cls \notin {"synchrotron", "line", "sin", "bias"} /\ p \in {"K", "value"}
           -> y_unit
      [] cls = "sin" /\ p = "K" -> y_unit
      [] cls \notin {"synchrotron", "line", "sin", "bias"} /\ p = "F"
           -> UMul(y_unit, x_unit)
      [] cls \notin {"synchrotron", "line", "sin", "bias"}
           /\ p \in {"piv", "xb", "mu", "sigma", "lower_bound", "upper_bound",
                     "xp", "xc", "a", "b"}
           -> x_unit
      [] cls \notin {"synchrotron", "line", "sin", "bias"}
           /\ p \in {"index", "alpha", "beta", "opt"}
           -> dimensionless_unscaled

\* C6: after any sequence of _set_units calls, every parameter's unit is the
\* declared expression of the (x_unit, y_unit) of the most recent call that
\* returned.
C6_UnitsFollowLastSuccessfulCall ==
    (self # None /\ lastOk # None) =>
        \A p \in DOMAIN self.unit :
            self.unit[p] = DeclaredUnit(self.cls, p, lastOk.x, lastOk.y)

\* the same for every class but bias
C6_ExceptBias ==
    (self # None /\ lastOk # None /\ self.cls # "bias") =>
        \A p \in DOMAIN self.unit :
            self.unit[p] = DeclaredUnit(self.cls, p, lastOk.x, lastOk.y)

\* C13: a bias._set_units call rejected because x_unit != y_unit leaves the
\* unit of k as it was before the call.
C13_RejectedBiasCallHasNoEffect ==
    (IsBias /\ last # None /\ last.exc = "InvalidUsageForFunction") =>
        self.unit.k = last.prev.k

\* what the code does: after a rejected call k has the x_unit of that call;
\* a rejected synchrotron._set_units call changes nothing
C13_RejectedCalls ==
    /\ (IsBias /\ last # None /\ last.exc = "InvalidUsageForFunction") =>
           self.unit.k = last.x
    /\ (IsSynchrotron /\ last # None /\ last.exc = "InvalidUsageForFunction") =>
           self.unit = last.prev

\* C9: a load in which the optional imports raise nothing but ImportError
\* never fails; after an ImportError the warning is emitted, the flag is
\* false from then on and the class is never defined; once the module is
\* loaded each class is defined exactly when its flag is true.
C9_OptionalImports ==
    /\ (imp.naima # "OtherError" /\ imp.gsl # "OtherError") => pc # "failed"
    /\ (imp.naima = "ImportError" /\ pc # "import_naima") =>
           /\ has_naima = "False"
           /\ "NaimaNotAvailable" \in warned
           /\ "synchrotron" \notin classes
    /\ (imp.gsl = "ImportError" /\ pc \notin {"import_naima", "import_gsl"}
            /\ imp.naima # "OtherError") =>
           /\ has_gsl = "False"
           /\ "GSLNotAvailable" \in warned
           /\ "cutoff_powerlaw_flux" \notin classes
    /\ "synchrotron" \in classes => has_naima = "True"
    /\ "cutoff_powerlaw_flux" \in classes => has_gsl = "True"
    /\ pc = "loaded" =>
           /\ has_naima = "True" => "synchrotron" \in classes
           /\ has_gsl = "True" => "cutoff_powerlaw_flux" \in classes

C9_Witness ==
    /\ pc = "loaded"
    /\ imp.naima = "ImportError" /\ imp.gsl = "ok"
    /\ has_naima = "False" /\ "synchrotron" \notin classes
    /\ "cutoff_powerlaw_flux" \in classes
    /\ last # None

(***************************************************************************)
(* Properties of the particle distribution, checked under SpecSynch.        *)
(***************************************************************************)
\* C10: after an assignment particle_distribution = f, f is stored and read
\* back, f._set_units was called with (particle_energy, particle_energy^-1),
\* and the adapter calls f on the bare value and divides by particle_energy;
\* after several assignments both refer to the last assigned f.
C10_StoredAndAdapterFollowLastAssignment ==
    assigned # None =>
        /\ syn.particle_distribution = [ref |-> assigned.function]
        /\ (out # None /\ out.op = "get") =>
               out.value = [ref |-> assigned.function]
        /\ assigned.x_unit = sys.particle_energy
        /\ assigned.y_unit = UPow(sys.particle_energy, -1)
        /\ syn.particle_distribution_wrapper # None
        /\ syn.particle_distribution_wrapper.function = assigned.function
        /\ (out # None /\ out.op = "wrapper") =>
               /\ out.value.function = assigned.function
               /\ out.value.unit = UPow(sys.particle_energy, -1)

\* the same after an assignment whose _set_units call returned
C10_WhenSetUnitsReturns ==
    (assigned # None /\ assigned.exc = NoExc) =>
        /\ syn.particle_distribution = [ref |-> assigned.function]
        /\ (out # None /\ out.op = "get") =>
               out.value = [ref |-> assigned.function]
        /\ assigned.x_unit = sys.particle_energy
        /\ assigned.y_unit = UPow(sys.particle_energy, -1)
        /\ syn.particle_distribution_wrapper # None
        /\ syn.particle_distribution_wrapper.function = assigned.function
        /\ (out # None /\ out.op = "wrapper") =>
               /\ out.value.function = assigned.function
               /\ out.value.unit = UPow(sys.particle_energy, -1)

\* an assignment whose _set_units call raised: f is stored, the adapter is
\* the one of the assignment before
C10_WhenSetUnitsRaises ==
    (assigned # None /\ assigned.exc # NoExc) =>
        /\ syn.particle_distribution = [ref |-> assigned.function]
        /\ syn.particle_distribution_wrapper = assigned.wrapper_before

\* the function f has had _set_units(particle_energy, particle_energy^-1)
\* return, and its units are the ones that call gives
UnitsSetInParticleEnergy(f) ==
    LET r == set_units(f.cls, Parameters(f.cls), sys.particle_energy,
                       UPow(sys.particle_energy, -1))
    IN  r.exc = NoExc /\ f.unit = r.unit

SynchrotronCalled ==
    /\ out # None
    /\ \/ out.op = "evaluate"
       \/ (out.op = "to_dict" /\ ~ out.minimal)

\* C11: evaluate and non-minimal to_dict return a value only if a particle
\* distribution has been assigned before and that distribution's units have
\* been set in the particle-energy unit; before any assignment they fail.
C11_ValueOnlyAfterAssignmentWithUnits ==
    SynchrotronCalled =>
        /\ syn.particle_distribution = None => out.exc # NoExc
        /\ out.exc = NoExc =>
               /\ syn.particle_distribution # None
               /\ UnitsSetInParticleEnergy(dist[syn.particle_distribution.ref])

\* evaluate alone: it returns only through an adapter, whose function was
\* assigned with _set_units returning; before any assignment both calls fail
C11_EvaluateNeedsAdapter ==
    SynchrotronCalled =>
        /\ syn.particle_distribution = None => out.exc = "AttributeError"
        /\ (out.op = "evaluate" /\ out.exc = NoExc) =>
               /\ syn.particle_distribution # None
               /\ syn.particle_distribution_wrapper # None
               /\ UnitsSetInParticleEnergy(
                      dist[syn.particle_distribution_wrapper.function])
        /\ (out.op = "to_dict" /\ out.exc = NoExc) =>
               syn.particle_distribution # None

(***************************************************************************)
(* Properties of evaluate, checked under SpecEval.                          *)
(***************************************************************************)
BandCalled == ret # None /\ call.fn = "band"

CallEc == CutoffEnergy(call.alpha, call.xp)
CallEsplit == SplitEnergy(call.alpha, call.beta, CallEc)

\* a <= Esplit <= b
SplitInBand == RLe(FromInt(call.a), CallEsplit) /\ RLe(CallEsplit, FromInt(call.b))

\* C1: band.evaluate with opt = 1 and Esplit > b raises and returns no flux,
\* for every x and every F.
C1_SplitAboveBandRaises ==
    (BandCalled /\ call.opt = 1 /\ RLt(FromInt(call.b), CallEsplit)) =>
        ret.exc # NoExc

\* the same for band limits in order, a <= b: the error is the RuntimeError
C1_WhenLimitsOrdered ==
    (BandCalled /\ call.opt = 1 /\ RLt(FromInt(call.b), CallEsplit)
        /\ call.a <= call.b) =>
        ret.exc = "RuntimeError"

\* the incomplete gamma integral and the power law integral as the call
\* names them
CplTerm(Emin, Emax) ==
    [f |-> "ggrb_int_cpl", a |-> call.alpha, Ec |-> CallEc,
     Emin |-> Emin, Emax |-> Emax]

PlTerm(Emin, Emax) ==
    [f |-> "ggrb_int_pl", a |-> call.alpha, b |-> call.beta, Ec |-> CallEc,
     Emin |-> Emin, Emax |-> Emax]

\* Ec and Esplit as C12 writes them
ClaimedEc ==
    IF call.alpha = -2 THEN RDiv(FromInt(call.xp), Rat(1, 10000))
    ELSE RDiv(FromInt(call.xp), FromInt(2 + call.alpha))

\* C12: the integrated flux band.evaluate normalizes with is
\* ggrb_int_cpl(alpha, Ec, a, b) for opt = 0 wherever Esplit lies (never the
\* RuntimeError); ggrb_int_cpl(alpha, Ec, a, Esplit) + ggrb_int_pl(alpha,
\* beta, Ec, Esplit, b) for opt = 1 and a <= Esplit <= b; ggrb_int_pl(alpha,
\* beta, Ec, a, b) for opt = 1 and Esplit < a; with Ec = xp / (2 + alpha), or
\* xp / 0.0001 for alpha = -2, and Esplit = (alpha - beta) * Ec.  An opt
\* other than 0 and 1 is rejected by the assertion.
C12_IntegratedFluxCases ==
    BandCalled =>
        LET a == FromInt(call.a)
            b == FromInt(call.b)
        IN  /\ CallEc = ClaimedEc
            /\ CallEsplit = RMul(FromInt(call.alpha - call.beta), ClaimedEc)
            /\ call.opt \notin {0, 1} => ret.exc = "AssertionError"
            /\ call.opt \in {0, 1} => ret.exc # "AssertionError"
            /\ call.opt = 0 => ret.exc # "RuntimeError"
            /\ (call.opt = 0 /\ ret.exc = NoExc) =>
                   /\ ret.intflux.case = "cpl"
                   /\ ret.intflux.terms = <<CplTerm(a, b)>>
            /\ (call.opt = 1 /\ SplitInBand /\ ret.exc = NoExc) =>
                   /\ ret.intflux.case = "cpl+pl"
                   /\ ret.intflux.terms =
                          <<CplTerm(a, CallEsplit), PlTerm(CallEsplit, b)>>
            /\ (call.opt = 1 /\ RLt(CallEsplit, a) /\ ret.exc = NoExc) =>
                   /\ ret.intflux.case = "pl"
                   /\ ret.intflux.terms = <<PlTerm(a, b)>>
            /\ (call.opt = 1 /\ ret.exc = NoExc) =>
                   (SplitInBand \/ RLt(CallEsplit, a))
            /\ ret.exc = NoExc => ret.norm.intflux = ret.intflux.terms

C12_Witness ==
    /\ BandCalled /\ call.opt = 0
    /\ call.a < call.b /\ RLt(FromInt(call.b), CallEsplit)
    /\ ret.exc = NoExc
    /\ ret.intflux.terms = <<CplTerm(FromInt(call.a), FromInt(call.b))>>
    /\ ret.norm.kind = "num"

\* the kind of number norm * coef * e^eexp is, in IEEE arithmetic
FluxKind(u) ==
    IF u.norm.kind = "nan" \/ u.coef.k = "nan" THEN "nan"
    ELSE IF (u.norm.kind = "zero" /\ u.coef.k = "inf")
              \/ (u.norm.kind = "inf" /\ u.coef.k = "zero") THEN "nan"
    ELSE IF u.norm.kind = "zero" \/ u.coef.k = "zero" THEN "zero"
    ELSE IF u.norm.kind = "inf" \/ u.coef.k = "inf" THEN "inf"
    ELSE "num"

\* two fluxes with the same norm are the same number (nan equals nothing;
\* e is transcendental, so finite values agree only with equal exponents)
SameValue(u, v) ==
    /\ FluxKind(u) # "nan"
    /\ FluxKind(u) = FluxKind(v)
    /\ FluxKind(u) = "inf" => u.coef.s = v.coef.s
    /\ FluxKind(u) = "num" => (u.coef = v.coef /\ u.eexp = v.eexp)

\* some finite, nonzero normalisation
FiniteNorm == [kind |-> "num"]

C7_PriorsOnAndOffTheInterval ==
    /\ (ret # None /\ call.fn = "uniform_prior") =>
           /\ ret.exc = NoExc
           /\ (call.lower_bound <= call.x /\ call.x <= call.upper_bound)
                  => ret.value = FromRat(FromInt(call.value))
           /\ (call.x < call.lower_bound \/ call.x > call.upper_bound)
                  => ret.value = Zero
    /\ (ret # None /\ call.fn = "log_uniform_prior") =>
           /\ ret.exc = NoExc
           /\ (call.lower_bound < call.x /\ call.x < call.upper_bound)
                  => ret.value = FromRat(Rat(1, call.x))
           /\ (call.x <= call.lower_bound \/ call.x >= call.upper_bound)
                  => ret.value = Zero

C7_Witness ==
    /\ ret # None /\ call.fn = "log_uniform_prior"
    /\ call.lower_bound < call.upper_bound
    /\ call.x = call.upper_bound
    /\ ret.value = Zero

\* C8: broken_powerlaw.evaluate returns K * (x / xb)^alpha for x < xb and
\* K * (x / xb)^beta for x >= xb, so that K is the value at x = xb.
C8_BrokenPowerlawScalesByBreak ==
    (ret # None /\ call.fn = "broken_powerlaw") =>
        /\ ret.exc = NoExc
        /\ ret.value =
               VMul(FromRat(FromInt(call.K)),
                    np_power(Rat(call.x, call.xb),
                             IF call.x < call.xb THEN call.alpha ELSE call.beta))

\* what the code returns: the powers of x itself
C8_PowersOfX ==
    (ret # None /\ call.fn = "broken_powerlaw") =>
        /\ ret.exc = NoExc
        /\ ret.value =
               VMul(FromRat(FromInt(call.K)),
                    np_power(FromInt(call.x),
                             IF call.x < call.xb THEN call.alpha ELSE call.beta))

====
